---- MODULE Spec2Model ----
(***************************************************************************)
(* TfGM tram analyzer: the scrape orchestrator of api.py (run_analysis,    *)
(* the scheduler thread, POST /trigger and the pushes to the hub) and the  *)
(* one-shot pipeline of tram_analyzer.py (fetch_departures, build_result,  *)
(* main).                                                                  *)
(*                                                                         *)
(* Text is a sequence of one-character strings, so that lower(), title(),  *)
(* strip() and the substring test are computed, not assumed.               *)
(***************************************************************************)
EXTENDS Integers, Sequences, FiniteSets, TLC

VARIABLES
    _state,            \* api.py: the shared RunState dict
    pc,                \* position of the scheduler thread and of each background task
    result,            \* run_analysis: what fetch_and_build returned or raised, per run
    snap,              \* _push_health_sensor: the local copy s = dict(_state)
    hub,               \* the hub's entity states, as last delivered
    response,          \* POST /trigger: the response being sent, or None
    now,               \* the wall clock read by datetime.now(), saturating at MaxTime
    SUPERVISOR_TOKEN,  \* api.py: whether the environment holds a token
    mpc,               \* tram_analyzer.main: its position
    departures,        \* tram_analyzer.main: the local list
    mresult,           \* tram_analyzer.main: the local result
    written,           \* tram_analyzer.save_result: the status last written to OUTPUT_FILE
    section,           \* fetch_departures: the text the pattern scans
    found,             \* fetch_departures: the groups of the matches of finditer
    extracted,         \* fetch_departures: the list it returns
    destination_filter,\* the DESTINATION of the environment, lower-cased
    built,             \* build_result: the result for the returned list
    xpc,               \* how far the extraction has gone
    raw_wait,          \* parse_minutes: its argument
    minutes            \* parse_minutes: its value, NotComputed before the call

vars == <<_state, pc, result, snap, hub, response, now, SUPERVISOR_TOKEN,
          mpc, departures, mresult, written,
          section, found, extracted, destination_filter, built, xpc, raw_wait, minutes>>

apiVars == <<_state, pc, result, snap, hub, response, now, SUPERVISOR_TOKEN>>
mainVars == <<mpc, departures, mresult, written>>
extractVars == <<section, found, extracted, destination_filter, built, xpc>>
pureVars == <<extractVars, raw_wait, minutes>>

(***************************************************************************)
(* Bounds of the model.                                                    *)
(***************************************************************************)
MaxTasks == 1
MaxTime == 2
MaxFailures == 2
MaxMatches == 2

(***************************************************************************)
(* Text helpers: Python's str methods on sequences of characters.          *)
(***************************************************************************)
UpperLetters == <<"A","B","C","D","E","F","G","H","I","J","K","L","M",
                  "N","O","P","Q","R","S","T","U","V","W","X","Y","Z">>
LowerLetters == <<"a","b","c","d","e","f","g","h","i","j","k","l","m",
                  "n","o","p","q","r","s","t","u","v","w","x","y","z">>
Digits == <<"0","1","2","3","4","5","6","7","8","9">>

IndexIn(c, alphabet) ==
    IF \E i \in 1..Len(alphabet) : alphabet[i] = c
    THEN CHOOSE i \in 1..Len(alphabet) : alphabet[i] = c
    ELSE 0

IsLetter(c) == IndexIn(c, UpperLetters) > 0 \/ IndexIn(c, LowerLetters) > 0
IsDigit(c) == IndexIn(c, Digits) > 0
IsSpace(c) == c = " "

LowerChar(c) == IF IndexIn(c, UpperLetters) > 0 THEN LowerLetters[IndexIn(c, UpperLetters)] ELSE c
UpperChar(c) == IF IndexIn(c, LowerLetters) > 0 THEN UpperLetters[IndexIn(c, LowerLetters)] ELSE c

\* str.lower()
Lower(s) == [i \in 1..Len(s) |-> LowerChar(s[i])]

\* str.title(): a letter that follows a non-letter is upper-cased, any other lower-cased
Title(s) ==
    [i \in 1..Len(s) |->
        IF i = 1 \/ ~IsLetter(s[i - 1]) THEN UpperChar(s[i]) ELSE LowerChar(s[i])]

\* str.strip()
Strip(s) ==
    LET keep == {i \in 1..Len(s) : ~IsSpace(s[i])}
    IN  IF keep = {} THEN <<>>
        ELSE LET lo == CHOOSE i \in keep : \A j \in keep : i <= j
                 hi == CHOOSE i \in keep : \A j \in keep : j <= i
             IN  SubSeq(s, lo, hi)

\* sub in s
Contains(sub, s) ==
    \E i \in 0..(Len(s) - Len(sub)) : SubSeq(s, i + 1, i + Len(sub)) = sub

\* int() of a run of digits
RECURSIVE ToInt(_)
ToInt(ds) ==
    IF ds = <<>> THEN 0
    ELSE 10 * ToInt(SubSeq(ds, 1, Len(ds) - 1)) + (IndexIn(ds[Len(ds)], Digits) - 1)

(***************************************************************************)
(* tram_analyzer.parse_minutes                                             *)
(***************************************************************************)
ZeroWaitWords == {<<"d","u","e">>, <<"a","r","r","i","v","e","d">>,
                  <<"d","e","p","a","r","t","i","n","g">>, <<"n","o","w">>}

NoDigitsMinutes == 99

\* parse_minutes comparing the text as written, without lower()
parse_minutes_as_written(text) ==
    LET t == Strip(text)
        ds == {i \in 1..Len(t) : IsDigit(t[i])}
    IN  IF \E w \in ZeroWaitWords : Contains(w, t) THEN 0
        ELSE IF ds = {} THEN NoDigitsMinutes
        ELSE LET first == CHOOSE i \in ds : \A j \in ds : i <= j
                 last == CHOOSE i \in first..Len(t) :
                            /\ \A j \in first..i : IsDigit(t[j])
                            /\ (i = Len(t) \/ ~IsDigit(t[i + 1]))
             IN  ToInt(SubSeq(t, first, last))

parse_minutes(text) ==
    LET t == Strip(Lower(text))
        ds == {i \in 1..Len(t) : IsDigit(t[i])}
    IN  IF \E w \in ZeroWaitWords : Contains(w, t) THEN 0
        ELSE IF ds = {} THEN NoDigitsMinutes
        ELSE LET first == CHOOSE i \in ds : \A j \in ds : i <= j
                 last == CHOOSE i \in first..Len(t) :
                            /\ \A j \in first..i : IsDigit(t[j])
                            /\ (i = Len(t) \/ ~IsDigit(t[i + 1]))
             IN  ToInt(SubSeq(t, first, last))

(***************************************************************************)
(* tram_analyzer.fetch_departures, from the regex matches on: the loop     *)
(* over pattern.finditer(section) and the final sort.  A match is the      *)
(* triple of its groups (destination, carriage word, wait text), in the    *)
(* letter case in which the page wrote it.                                 *)
(***************************************************************************)
Victoria == <<"V","i","c","t","o","r","i","a">>
Bury == <<"B","u","r","y">>
BURY == <<"B","U","R","Y">>
Due == <<"D","u","e">>
FourMins == <<"4"," ","m","i","n","s">>

MatchDestinations == {Victoria, Bury, BURY}
CarriageWords == {"Single", "Double"}
WaitTexts == {Due, FourMins}

Matches == [dest : MatchDestinations, carriages : CarriageWords, wait : WaitTexts]

RECURSIVE SeqsUpTo(_, _)
SeqsUpTo(S, n) ==
    IF n = 0 THEN {<<>>}
    ELSE LET shorter == SeqsUpTo(S, n - 1)
         IN  shorter \cup {Append(s, x) : s \in shorter, x \in S}

\* what finditer can yield on a page: every sequence of at most MaxMatches matches
Pages == SeqsUpTo(Matches, MaxMatches)

DedupKey(dest, wait_text) == Lower(dest) \o <<":">> \o Lower(wait_text)

\* the loop with the carriage word made part of the key
RECURSIVE ExtractLoopKeyedWithCarriage(_, _, _)
ExtractLoopKeyedWithCarriage(ms, seen, acc) ==
    IF ms = <<>> THEN acc
    ELSE LET m == Head(ms)
             dest == Title(Strip(m.dest))
             wait_text == Strip(m.wait)
             key == <<DedupKey(dest, wait_text), m.carriages>>
         IN  IF key \in seen
             THEN ExtractLoopKeyedWithCarriage(Tail(ms), seen, acc)
             ELSE ExtractLoopKeyedWithCarriage(Tail(ms), seen \cup {key},
                     Append(acc, [destination |-> dest,
                                  carriages |-> m.carriages,
                                  departure_text |-> wait_text,
                                  minutes_until |-> parse_minutes(wait_text)]))

RECURSIVE ExtractLoop(_, _, _)
ExtractLoop(ms, seen, acc) ==
    IF ms = <<>> THEN acc
    ELSE LET m == Head(ms)
             dest == Title(Strip(m.dest))
             wait_text == Strip(m.wait)
             key == DedupKey(dest, wait_text)
         IN  IF key \in seen
             THEN ExtractLoop(Tail(ms), seen, acc)
             ELSE ExtractLoop(Tail(ms), seen \cup {key},
                     Append(acc, [destination |-> dest,
                                  carriages |-> m.carriages,
                                  departure_text |-> wait_text,
                                  minutes_until |-> parse_minutes(wait_text)]))

\* an insertion that puts an element before those with an equal key
InsertSortedBeforeEqual(x, s) ==
    LET k == Cardinality({i \in 1..Len(s) : s[i].minutes_until < x.minutes_until})
    IN  SubSeq(s, 1, k) \o <<x>> \o SubSeq(s, k + 1, Len(s))

\* list.sort(key=minutes_until): stable, an element goes after those with an equal key
InsertSorted(x, s) ==
    LET k == Cardinality({i \in 1..Len(s) : s[i].minutes_until <= x.minutes_until})
    IN  SubSeq(s, 1, k) \o <<x>> \o SubSeq(s, k + 1, Len(s))

RECURSIVE SortByMinutes(_)
SortByMinutes(s) ==
    IF s = <<>> THEN <<>>
    ELSE InsertSorted(s[Len(s)], SortByMinutes(SubSeq(s, 1, Len(s) - 1)))

fetch_departures(ms) == SortByMinutes(ExtractLoop(ms, {}, <<>>))

(***************************************************************************)
(* tram_analyzer.fetch_departures, lines 122-141: the pattern and its scan *)
(* of the section.  re.IGNORECASE compares letters lower-cased; a position *)
(* is an index into the text and 0 stands for "no match".                  *)
(***************************************************************************)
VALID_DESTINATIONS == {
    <<"v","i","c","t","o","r","i","a">>,
    <<"m","a","n","c","h","e","s","t","e","r"," ","a","i","r","p","o","r","t">>,
    <<"a","l","t","r","i","n","c","h","a","m">>,
    <<"b","u","r","y">>,
    <<"r","o","c","h","d","a","l","e">>,
    <<"e","a","s","t"," ","d","i","d","s","b","u","r","y">>,
    <<"e","c","c","l","e","s">>,
    <<"a","s","h","t","o","n">>,
    <<"a","s","h","t","o","n","-","u","n","d","e","r","-","l","y","n","e">>,
    <<"o","l","d","h","a","m">>,
    <<"s","h","a","w">>,
    <<"f","i","r","s","w","o","o","d">>,
    <<"p","i","c","c","a","d","i","l","l","y">>,
    <<"d","e","a","n","s","g","a","t","e"," ","-"," ","c","a","s","t","l","e","f","i","e","l","d">>,
    <<"c","o","r","n","b","r","o","o","k">>,
    <<"m","e","d","i","a","c","i","t","y"," ","u","k">>,
    <<"s","a","l","f","o","r","d"," ","q","u","a","y","s">>,
    <<"e","x","c","h","a","n","g","e"," ","s","q","u","a","r","e">>,
    <<"s","t"," ","p","e","t","e","r","'","s"," ","s","q","u","a","r","e">>,
    <<"m","a","r","k","e","t"," ","s","t","r","e","e","t">>,
    <<"e","t","i","h","a","d"," ","c","a","m","p","u","s">>,
    <<"h","a","r","b","o","u","r"," ","c","i","t","y">>,
    <<"a","n","c","h","o","r","a","g","e">>,
    <<"n","e","w"," ","i","s","l","i","n","g","t","o","n">>,
    <<"h","o","l","t"," ","t","o","w","n">>,
    <<"v","e","l","o","p","a","r","k">>,
    <<"c","l","a","y","t","o","n"," ","h","a","l","l">>,
    <<"e","d","g","e"," ","l","a","n","e">>,
    <<"d","r","o","y","l","s","d","e","n">>,
    <<"a","u","d","e","n","s","h","a","w">>,
    <<"r","o","b","i","n","s","w","o","o","d"," ","r","o","a","d">>,
    <<"b","a","r","t","o","n"," ","d","o","c","k"," ","r","o","a","d">>,
    <<"v","i","l","l","a","g","e">>,
    <<"w","h","a","r","f","s","i","d","e">>,
    <<"i","m","p","e","r","i","a","l"," ","w","a","r"," ","m","u","s","e","u","m">>,
    <<"t","h","e"," ","t","r","a","f","f","o","r","d"," ","c","e","n","t","r","e">>,
    <<"p","a","r","k","w","a","y">>,
    <<"r","o","u","n","d","t","h","o","r","n">>,
    <<"b","a","g","u","l","e","y">>,
    <<"s","h","a","d","o","w","m","o","s","s">>,
    <<"m","a","r","t","i","n","s","c","r","o","f","t">>,
    <<"c","r","o","s","s","a","c","r","e","s">>,
    <<"b","e","n","c","h","i","l","l">>,
    <<"w","y","t","h","e","n","s","h","a","w","e"," ","t","o","w","n"," ","c","e","n","t","r","e">>,
    <<"n","o","r","t","h","e","r","n"," ","m","o","o","r">>,
    <<"p","e","e","l"," ","h","a","l","l">>,
    <<"k","i","n","g","s","w","a","y"," ","b","u","s","i","n","e","s","s"," ","p","a","r","k">>}

RECURSIVE AnyOrder(_)
AnyOrder(S) ==
    IF S = {} THEN <<>>
    ELSE LET x == CHOOSE y \in S : TRUE IN <<x>> \o AnyOrder(S \ {x})

LongestName == CHOOSE n \in {Len(d) : d \in VALID_DESTINATIONS} :
                   \A d \in VALID_DESTINATIONS : Len(d) <= n

RECURSIVE LongerFirst(_)
LongerFirst(n) ==
    IF n = 0 THEN <<>>
    ELSE AnyOrder({d \in VALID_DESTINATIONS : Len(d) = n}) \o LongerFirst(n - 1)

RECURSIVE ShorterFirst(_)
ShorterFirst(n) ==
    IF n = 0 THEN <<>>
    ELSE ShorterFirst(n - 1) \o AnyOrder({d \in VALID_DESTINATIONS : Len(d) = n})

\* the alternation sorted by increasing length
dest_pattern_shortest_first == ShorterFirst(LongestName)

\* lines 124-126: sorted(VALID_DESTINATIONS, key=len, reverse=True).  Names of one
\* length come in the order the set yields them; two different names of one length
\* never match at the same position, so that order decides nothing.
dest_pattern == LongerFirst(LongestName)

\* the letter dotless i (U+0131), named by its code point
DotlessI == "U+0131"

\* re.IGNORECASE on str: letters are compared lower-cased, and the regex engine
\* takes the dotless i for the same letter as i, which str.lower() leaves alone
IgnoreCase(c) == IF c = DotlessI THEN "i" ELSE LowerChar(c)

\* a literal of the pattern (given in lower case) at position i of s: the position
\* after it, or 0
Literal(w, s, i) ==
    IF /\ i >= 1
       /\ i + Len(w) - 1 <= Len(s)
       /\ \A k \in 1..Len(w) : IgnoreCase(s[i + k - 1]) = w[k]
    THEN i + Len(w) ELSE 0

\* the position after the longest run of characters of one class that starts at i
SpacesEnd(s, i) ==
    CHOOSE j \in i..(Len(s) + 1) :
        /\ \A k \in i..(j - 1) : IsSpace(s[k])
        /\ (j = Len(s) + 1 \/ ~IsSpace(s[j]))
DigitsEnd(s, i) ==
    CHOOSE j \in i..(Len(s) + 1) :
        /\ \A k \in i..(j - 1) : IsDigit(s[k])
        /\ (j = Len(s) + 1 \/ ~IsDigit(s[j]))

\* \s+ and [\d]+ at position i.  What follows either in the pattern never starts
\* with a character of its class, so giving characters back never helps.
Whitespace(s, i) == IF i = 0 \/ SpacesEnd(s, i) = i THEN 0 ELSE SpacesEnd(s, i)
DigitRun(s, i) == IF i = 0 \/ DigitsEnd(s, i) = i THEN 0 ELSE DigitsEnd(s, i)

\* the first of the words (tried in order) that is at position i
RECURSIVE FirstLiteral(_, _, _)
FirstLiteral(words, s, i) ==
    IF i = 0 \/ words = <<>> THEN 0
    ELSE IF Literal(Head(words), s, i) > 0 THEN Literal(Head(words), s, i)
    ELSE FirstLiteral(Tail(words), s, i)

CarriageAlternatives == << <<"s","i","n","g","l","e">>, <<"d","o","u","b","l","e">> >>
Tram == <<"t","r","a","m">>
Min == <<"m","i","n">>
WaitKeywords == << <<"d","u","e">>, <<"a","r","r","i","v","e","d">>,
                   <<"d","e","p","a","r","t","i","n","g">>, <<"n","o","w">> >>

\* line 134, the third group: [\d]+\s+mins? or else one of the four keywords
WaitGroup(s, i) ==
    LET m == IF i = 0 THEN 0 ELSE Literal(Min, s, Whitespace(s, DigitRun(s, i)))
    IN  IF i = 0 THEN 0
        ELSE IF m > 0
        THEN (IF Literal(<<"s">>, s, m) > 0 THEN m + 1 ELSE m)
        ELSE FirstLiteral(WaitKeywords, s, i)

\* lines 131-136 with the first group taken to be the name d, at position i: the
\* positions at which the groups start and end
PatternWith(d, s, i) ==
    LET e1 == Literal(d, s, i)
        b2 == Whitespace(s, e1)
        e2 == FirstLiteral(CarriageAlternatives, s, b2)
        b3 == Whitespace(s, Literal(Tram, s, Whitespace(s, e2)))
        e3 == WaitGroup(s, b3)
    IN  [end |-> e3, e1 |-> e1, b2 |-> b2, e2 |-> e2, b3 |-> b3]

\* the pattern at position i: the match with the first alternative of the first
\* group that lets the rest of the pattern match, or no match (an alternative whose
\* first letter is not the one at i is passed over without trying the rest)
NoMatch == [start |-> 0, end |-> 0]
PatternAt(s, i) ==
    LET c == IgnoreCase(s[i])
        fits == {k \in 1..Len(dest_pattern) :
                    /\ dest_pattern[k][1] = c
                    /\ PatternWith(dest_pattern[k], s, i).end > 0}
    IN  IF fits = {} THEN NoMatch
        ELSE LET k == CHOOSE k \in fits : \A l \in fits : k <= l
                 g == PatternWith(dest_pattern[k], s, i)
             IN  [start |-> i, end |-> g.end,
                  dest |-> SubSeq(s, i, g.e1 - 1),
                  carriages |-> SubSeq(s, g.b2, g.e2 - 1),
                  wait |-> SubSeq(s, g.b3, g.end - 1)]

\* pattern.finditer(section): the matches from left to right, each search starting
\* where the match before it ended
RECURSIVE finditer_from(_, _)
finditer_from(s, i) ==
    IF i > Len(s) THEN <<>>
    ELSE LET m == PatternAt(s, i)
         IN  IF m.end = 0 THEN finditer_from(s, i + 1)
             ELSE <<m>> \o finditer_from(s, m.end)

finditer(s) == finditer_from(s, 1)

(***************************************************************************)
(* tram_analyzer.build_result (the timestamp and the legacy duplicate keys *)
(* are left out: nothing reads them)                                       *)
(***************************************************************************)
DESTINATION == Lower(<<"v","i","c","t","o","r","i","a">>)

\* line 166, for the value dest of DESTINATION
Matching(dest, d) == Contains(dest, Lower(d.destination))

\* line 166 keeping the records whose destination is the filter term itself
build_result_equal(dest, deps) ==
    LET IsEqual(d) == Lower(d.destination) = dest
        target == SelectSeq(deps, IsEqual)
    IN  IF target = <<>>
        THEN [status |-> "no_service",
              destination_filter |-> dest,
              all_departures |-> deps]
        ELSE [status |-> "success",
              destination_filter |-> dest,
              next_tram |-> [departure_text |-> target[1].departure_text,
                             minutes_until |-> target[1].minutes_until,
                             destination |-> target[1].destination,
                             carriages |-> target[1].carriages],
              all_destination_trams |->
                  [i \in 1..Len(target) |->
                      [departure_text |-> target[i].departure_text,
                       minutes_until |-> target[i].minutes_until,
                       carriages |-> target[i].carriages]],
              all_departures |-> deps]

\* build_result, for the value dest of DESTINATION
build_result_for(dest, deps) ==
    LET IsMatching(d) == Matching(dest, d)
        target == SelectSeq(deps, IsMatching)
    IN  IF target = <<>>
        THEN [status |-> "no_service",
              destination_filter |-> dest,
              all_departures |-> deps]
        ELSE [status |-> "success",
              destination_filter |-> dest,
              next_tram |-> [departure_text |-> target[1].departure_text,
                             minutes_until |-> target[1].minutes_until,
                             destination |-> target[1].destination,
                             carriages |-> target[1].carriages],
              all_destination_trams |->
                  [i \in 1..Len(target) |->
                      [departure_text |-> target[i].departure_text,
                       minutes_until |-> target[i].minutes_until,
                       carriages |-> target[i].carriages]],
              all_departures |-> deps]

IsTarget(d) == Contains(DESTINATION, Lower(d.destination))

build_result(deps) ==
    LET target == SelectSeq(deps, IsTarget)
    IN  IF target = <<>>
        THEN [status |-> "no_service",
              destination_filter |-> DESTINATION,
              all_departures |-> deps]
        ELSE [status |-> "success",
              destination_filter |-> DESTINATION,
              next_tram |-> [departure_text |-> target[1].departure_text,
                             minutes_until |-> target[1].minutes_until,
                             destination |-> target[1].destination,
                             carriages |-> target[1].carriages],
              all_destination_trams |->
                  [i \in 1..Len(target) |->
                      [departure_text |-> target[i].departure_text,
                       minutes_until |-> target[i].minutes_until,
                       carriages |-> target[i].carriages]],
              all_departures |-> deps]

\* the payload main() builds when the list is empty
NoDeparturesParsed == [status |-> "error", error |-> "No departures parsed"]

\* main() without its test of the empty list
MainResultUnguarded(deps) == build_result(deps)

\* main(), lines 245-258: the result for an extracted list
MainResult(deps) == IF deps = <<>> THEN NoDeparturesParsed ELSE build_result(deps)

(***************************************************************************)
(* fetch_and_build, imported by api.py from the add-on's own               *)
(* tram_analyzer module: extraction, then the result builder's three       *)
(* cases (zero records: Error result; none matching: NoService; else       *)
(* Success).  A failed page retrieval raises instead of returning.         *)
(***************************************************************************)
fetch_and_build(ms) ==
    LET deps == fetch_departures(ms)
    IN  IF deps = <<>> THEN NoDeparturesParsed ELSE build_result(deps)

(***************************************************************************)
(* api.py: the state                                                       *)
(***************************************************************************)
Sched == 0
Tasks == 1..MaxTasks
Procs == {Sched} \cup Tasks

NoneStr == <<"N","o","n","e">>
NoneTime == 0

InitialState ==
    [state |-> "idle",
     last_run |-> NoneTime,
     last_success |-> NoneTime,
     last_error |-> NoneStr,
     consecutive_failures |-> 0]

\* str(e) of the exceptions the page retrieval raises
FailureTexts == {<<"t","i","m","e","d"," ","o","u","t">>}

\* What a run keeps of the outcome of fetch_and_build: the status, the next tram's
\* departure_text (all that _push_tram_sensor reads to compute the state), and the
\* text of the exception when it raised.
NoResult == [status |-> "none", next_tram |-> NoneStr, error |-> NoneStr]
Raised(e) == [status |-> "raised", next_tram |-> NoneStr, error |-> e]
Returned(r) ==
    [status |-> r.status,
     next_tram |-> IF r.status = "success" THEN r.next_tram.departure_text ELSE NoneStr,
     error |-> NoneStr]

PipelineOutcomes ==
    {Raised(e) : e \in FailureTexts} \cup {Returned(fetch_and_build(ms)) : ms \in Pages}

\* Of the copy s = dict(_state) and of the health payload built from it, the model
\* keeps the state and the consecutive_failures attribute.
NoSnap == [state |-> "none", consecutive_failures |-> 0]
HealthPayload(s) == [state |-> s.state, consecutive_failures |-> s.consecutive_failures]
NoTram == [state |-> NoneStr, status |-> "none"]
NoResponse == [status |-> "none", status_code |-> 0, started_at |-> NoneTime]

\* where a process is once run_analysis has returned: the scheduler is back in its
\* loop (time.sleep, then the next call), a background task is over
AfterReturn(p) == IF p = Sched THEN "loop" ELSE "idle"

\* the service and the one-shot pipeline as constructed, nothing called yet
Constructed ==
    /\ _state = InitialState
    /\ pc = [p \in Procs |-> AfterReturn(p)]
    /\ result = [p \in Procs |-> NoResult]
    /\ snap = [p \in Procs |-> NoSnap]
    /\ hub = [tram |-> NoTram, health |-> NoSnap]
    /\ response = NoResponse
    /\ now = 1
    /\ mpc = "start"
    /\ departures = <<>>
    /\ mresult = [status |-> "none"]
    /\ written = "none"

\* parse_minutes not called
NotComputed == -1
NoWaitText ==
    /\ raw_wait = <<>>
    /\ minutes = NotComputed

\* no page scanned
NoSection ==
    /\ section = <<>>
    /\ found = <<>>
    /\ extracted = <<>>
    /\ destination_filter = DESTINATION
    /\ built = [status |-> "none"]
    /\ xpc = "idle"

Init ==
    /\ Constructed
    /\ SUPERVISOR_TOKEN \in BOOLEAN
    /\ NoSection
    /\ NoWaitText

(***************************************************************************)
(* api.py: _push_sensor.  Without a token the push is skipped with a       *)
(* warning; otherwise the POST either changes the entity at the hub or     *)
(* does not (transport error, timeout, HTTP error status).  Whether        *)
(* requests.post returned or raised, _push_sensor returns normally: the    *)
(* exception is caught and logged.                                         *)
(***************************************************************************)
_push_sensor(entity_id, value) ==
    IF ~SUPERVISOR_TOKEN
    THEN hub' = hub
    ELSE \/ hub' = [hub EXCEPT ![entity_id] = value]
         \/ hub' = hub

\* _push_tram_sensor, lines 68-74: the state pushed for a result
TramSensorState(r) ==
    IF r.status = "success" THEN r.next_tram
    ELSE IF r.status = "no_service" THEN <<"N","o"," ","s","e","r","v","i","c","e">>
    ELSE <<"E","r","r","o","r">>

(***************************************************************************)
(* api.py: run_analysis, one action per step between two lock sections or  *)
(* external calls                                                          *)
(***************************************************************************)
\* run_analysis entering without the test of the phase
RunAnalysisEnterUntested(p) ==
    /\ pc[p] = "enter"
    /\ _state' = [_state EXCEPT !.state = "running", !.last_run = now]
    /\ now' = IF now < MaxTime THEN now + 1 ELSE now
    /\ pc' = [pc EXCEPT ![p] = "health1"]
    /\ UNCHANGED <<result, snap, hub, response, SUPERVISOR_TOKEN, mainVars, pureVars>>

\* lines 110-115: test and set of the phase, in one critical section.  The clock
\* moves on between the start of one run and any later reading of it, until it
\* saturates.
RunAnalysisEnter(p) ==
    /\ pc[p] = "enter"
    /\ IF _state.state = "running"
       THEN /\ pc' = [pc EXCEPT ![p] = AfterReturn(p)]
            /\ UNCHANGED <<_state, now>>
       ELSE /\ _state' = [_state EXCEPT !.state = "running", !.last_run = now]
            /\ now' = IF now < MaxTime THEN now + 1 ELSE now
            /\ pc' = [pc EXCEPT ![p] = "health1"]
    /\ UNCHANGED <<result, snap, hub, response, SUPERVISOR_TOKEN, mainVars, pureVars>>

\* _push_health_sensor, lines 93-94: the copy taken under the lock
HealthSnapshot(p) ==
    /\ pc[p] \in {"health1", "health2"}
    /\ snap' = [snap EXCEPT ![p] = HealthPayload(_state)]
    /\ pc' = [pc EXCEPT ![p] = IF pc[p] = "health1" THEN "health1_post" ELSE "health2_post"]
    /\ UNCHANGED <<_state, result, hub, response, now, SUPERVISOR_TOKEN, mainVars, pureVars>>

\* the first health push letting the exception of a failed POST out: it is outside
\* the try, so run_analysis ends there
HealthPushStartRaises(p) ==
    /\ pc[p] = "health1_post"
    /\ \/ /\ hub' = [hub EXCEPT !["health"] = snap[p]]
          /\ pc' = [pc EXCEPT ![p] = "fetch"]
       \/ /\ hub' = hub
          /\ pc' = [pc EXCEPT ![p] = AfterReturn(p)]
    /\ snap' = [snap EXCEPT ![p] = NoSnap]
    /\ UNCHANGED <<_state, result, response, now, SUPERVISOR_TOKEN, mainVars, pureVars>>

\* _push_health_sensor, lines 95-105, called at line 117: the push of the copy
HealthPushStart(p) ==
    /\ pc[p] = "health1_post"
    /\ _push_sensor("health", snap[p])
    /\ pc' = [pc EXCEPT ![p] = "fetch"]
    /\ snap' = [snap EXCEPT ![p] = NoSnap]
    /\ UNCHANGED <<_state, result, response, now, SUPERVISOR_TOKEN, mainVars, pureVars>>

\* lines 121-124: fetch_and_build returns a result or raises
Fetch(p) ==
    /\ pc[p] = "fetch"
    /\ \E o \in PipelineOutcomes :
          /\ o.status = "raised" => _state.consecutive_failures < MaxFailures
          /\ result' = [result EXCEPT ![p] = o]
    /\ pc' = [pc EXCEPT ![p] = "commit"]
    /\ UNCHANGED <<_state, snap, hub, response, now, SUPERVISOR_TOKEN, mainVars, pureVars>>

\* the success branch leaving the counter alone when the result is no_service
CommitSuccessKeepsCounter(p) ==
    /\ pc[p] = "commit"
    /\ result[p].status # "raised"
    /\ _state' = [_state EXCEPT !.state = "success",
                                !.last_success = now,
                                !.consecutive_failures =
                                    IF result[p].status = "no_service" THEN @ ELSE 0,
                                !.last_error = NoneStr]
    /\ pc' = [pc EXCEPT ![p] = "push_tram"]
    /\ UNCHANGED <<result, snap, hub, response, now, SUPERVISOR_TOKEN, mainVars, pureVars>>

\* the success branch leaving last_error as it was
CommitSuccessKeepsError(p) ==
    /\ pc[p] = "commit"
    /\ result[p].status # "raised"
    /\ _state' = [_state EXCEPT !.state = "success",
                                !.last_success = now,
                                !.consecutive_failures = 0]
    /\ pc' = [pc EXCEPT ![p] = "push_tram"]
    /\ UNCHANGED <<result, snap, hub, response, now, SUPERVISOR_TOKEN, mainVars, pureVars>>

\* lines 126-130
CommitSuccess(p) ==
    /\ pc[p] = "commit"
    /\ result[p].status # "raised"
    /\ _state' = [_state EXCEPT !.state = "success",
                                !.last_success = now,
                                !.consecutive_failures = 0,
                                !.last_error = NoneStr]
    /\ pc' = [pc EXCEPT ![p] = "push_tram"]
    /\ UNCHANGED <<result, snap, hub, response, now, SUPERVISOR_TOKEN, mainVars, pureVars>>

\* the error branch writing 1 instead of adding 1
CommitErrorSetsOne(p) ==
    /\ pc[p] = "commit"
    /\ result[p].status = "raised"
    /\ _state' = [_state EXCEPT !.state = "error",
                                !.last_error = result[p].error,
                                !.consecutive_failures = 1]
    /\ pc' = [pc EXCEPT ![p] = "push_tram"]
    /\ UNCHANGED <<result, snap, hub, response, now, SUPERVISOR_TOKEN, mainVars, pureVars>>

\* the error branch calling fetch_and_build again instead of recording the failure
CommitErrorRetries(p) ==
    /\ pc[p] = "commit"
    /\ result[p].status = "raised"
    /\ pc' = [pc EXCEPT ![p] = "fetch"]
    /\ UNCHANGED <<_state, result, snap, hub, response, now, SUPERVISOR_TOKEN, mainVars, pureVars>>

\* lines 136-143
CommitError(p) ==
    /\ pc[p] = "commit"
    /\ result[p].status = "raised"
    /\ _state' = [_state EXCEPT !.state = "error",
                                !.last_error = result[p].error,
                                !.consecutive_failures = @ + 1]
    /\ pc' = [pc EXCEPT ![p] = "push_tram"]
    /\ UNCHANGED <<result, snap, hub, response, now, SUPERVISOR_TOKEN, mainVars, pureVars>>

\* the tram push letting the exception of a failed POST out: inside the try, it
\* reaches the handler, which records a failed run
PushTramRaises(p) ==
    /\ pc[p] = "push_tram"
    /\ \/ /\ hub' = [hub EXCEPT !["tram"] =
                     [state |-> TramSensorState(result[p]), status |-> result[p].status]]
          /\ UNCHANGED _state
       \/ /\ hub' = hub
          /\ _state' = [_state EXCEPT !.state = "error",
                                      !.last_error = <<"p","u","s","h">>,
                                      !.consecutive_failures = @ + 1]
    /\ pc' = [pc EXCEPT ![p] = "health2"]
    /\ result' = [result EXCEPT ![p] = NoResult]
    /\ UNCHANGED <<snap, response, now, SUPERVISOR_TOKEN, mainVars, pureVars>>

\* line 132 (_push_tram_sensor) or lines 145-154 (the error payload); the result
\* is not read after it
PushTram(p) ==
    /\ pc[p] = "push_tram"
    /\ IF result[p].status = "raised"
       THEN _push_sensor("tram", [state |-> <<"E","r","r","o","r">>, status |-> "error"])
       ELSE _push_sensor("tram",
                [state |-> TramSensorState(result[p]), status |-> result[p].status])
    /\ pc' = [pc EXCEPT ![p] = "health2"]
    /\ result' = [result EXCEPT ![p] = NoResult]
    /\ UNCHANGED <<_state, snap, response, now, SUPERVISOR_TOKEN, mainVars, pureVars>>

\* _push_health_sensor, lines 95-105, called at line 133 or 155; run_analysis returns
HealthPushEnd(p) ==
    /\ pc[p] = "health2_post"
    /\ _push_sensor("health", snap[p])
    /\ pc' = [pc EXCEPT ![p] = AfterReturn(p)]
    /\ snap' = [snap EXCEPT ![p] = NoSnap]
    /\ UNCHANGED <<_state, result, response, now, SUPERVISOR_TOKEN, mainVars, pureVars>>

(***************************************************************************)
(* api.py: the scheduler thread and POST /trigger                          *)
(***************************************************************************)
\* the loop ending when a run has failed
SchedulerLoopUntilError ==
    /\ pc[Sched] = "loop"
    /\ _state.state # "error"
    /\ pc' = [pc EXCEPT ![Sched] = "enter"]
    /\ UNCHANGED <<_state, result, snap, hub, response, now, SUPERVISOR_TOKEN,
                   mainVars, pureVars>>

\* _scheduler, lines 161-163: the loop calls run_analysis again after the sleep
SchedulerLoop ==
    /\ pc[Sched] = "loop"
    /\ pc' = [pc EXCEPT ![Sched] = "enter"]
    /\ UNCHANGED <<_state, result, snap, hub, response, now, SUPERVISOR_TOKEN,
                   mainVars, pureVars>>

\* the handler without its test of the phase
TriggerUntested ==
    /\ response = NoResponse
    /\ \E t \in Tasks :
          /\ pc[t] = "idle"
          /\ pc' = [pc EXCEPT ![t] = "queued"]
    /\ response' = [status |-> "triggered", status_code |-> 200,
                    started_at |-> NoneTime]
    /\ UNCHANGED <<_state, result, snap, hub, now, SUPERVISOR_TOKEN, mainVars, pureVars>>

\* trigger, lines 170-181: the test under the lock, then add_task outside it
Trigger ==
    /\ response = NoResponse
    /\ IF _state.state = "running"
       THEN /\ response' = [status |-> "already_running", status_code |-> 200,
                            started_at |-> _state.last_run]
            /\ pc' = pc
       ELSE /\ \E t \in Tasks :
                  /\ pc[t] = "idle"
                  /\ pc' = [pc EXCEPT ![t] = "queued"]
            /\ response' = [status |-> "triggered", status_code |-> 200,
                            started_at |-> NoneTime]
    /\ UNCHANGED <<_state, result, snap, hub, now, SUPERVISOR_TOKEN, mainVars, pureVars>>

\* the response is sent; the background tasks added by the handler run after it
Respond ==
    /\ response # NoResponse
    /\ response' = NoResponse
    /\ pc' = [p \in Procs |-> IF pc[p] = "queued" THEN "enter" ELSE pc[p]]
    /\ UNCHANGED <<_state, result, snap, hub, now, SUPERVISOR_TOKEN, mainVars, pureVars>>

Next ==
    \/ \E p \in Procs : RunAnalysisEnter(p)
    \/ \E p \in Procs : HealthSnapshot(p)
    \/ \E p \in Procs : HealthPushStart(p)
    \/ \E p \in Procs : Fetch(p)
    \/ \E p \in Procs : CommitSuccess(p)
    \/ \E p \in Procs : CommitError(p)
    \/ \E p \in Procs : PushTram(p)
    \/ \E p \in Procs : HealthPushEnd(p)
    \/ SchedulerLoop
    \/ Trigger
    \/ Respond

Spec == Init /\ [][Next]_vars

\* The scheduler is a thread of its own: the lock sections of the other threads are
\* short and the external calls it makes are bounded by their timeouts, so each of
\* its steps is taken once it is possible.
SchedulerStep ==
    \/ SchedulerLoop
    \/ RunAnalysisEnter(Sched)
    \/ HealthSnapshot(Sched)
    \/ HealthPushStart(Sched)
    \/ Fetch(Sched)
    \/ CommitSuccess(Sched)
    \/ CommitError(Sched)
    \/ PushTram(Sched)
    \/ HealthPushEnd(Sched)

FairSpec == Spec /\ WF_vars(SchedulerStep)

\* A call of run_analysis goes on: the page retrieval and the pushes return or raise
\* within their timeouts, and the lock is held for a few assignments only.
RunStep(p) ==
    \/ RunAnalysisEnter(p)
    \/ HealthSnapshot(p)
    \/ HealthPushStart(p)
    \/ Fetch(p)
    \/ CommitSuccess(p)
    \/ CommitError(p)
    \/ PushTram(p)
    \/ HealthPushEnd(p)

RunFairSpec == Spec /\ \A p \in Procs : WF_vars(RunStep(p))

(***************************************************************************)
(* tram_analyzer.py: main, the one-shot pipeline                           *)
(***************************************************************************)
\* line 243: fetch_departures raises a requests exception or returns the list
MainFetch ==
    /\ mpc = "start"
    /\ \/ /\ mpc' = "except_request"
          /\ UNCHANGED departures
       \/ \E ms \in Pages :
             /\ departures' = fetch_departures(ms)
             /\ mpc' = "build"
    /\ UNCHANGED <<mresult, written, apiVars, pureVars>>

\* lines 245-260
MainBuild ==
    /\ mpc = "build"
    /\ mresult' = MainResult(departures)
    /\ mpc' = "save"
    /\ UNCHANGED <<departures, written, apiVars, pureVars>>

\* save_result, lines 218-233: the file is written, or makedirs/open/dump raises
save_result(r, ok) ==
    IF ok THEN written' = r.status ELSE written' = written

\* line 262: an OSError of save_result is caught by "except Exception"
MainSave ==
    /\ mpc = "save"
    /\ \E ok \in BOOLEAN :
          /\ save_result(mresult, ok)
          /\ mpc' = IF ok THEN "done" ELSE "except_exception"
    /\ UNCHANGED <<departures, mresult, apiVars, pureVars>>

\* lines 267-273 and 274-282: the handlers call save_result with an error payload;
\* nothing catches what it raises
MainHandler ==
    /\ mpc \in {"except_request", "except_exception"}
    /\ \E ok \in BOOLEAN :
          /\ save_result([status |-> "error"], ok)
          /\ mpc' = IF ok THEN "done" ELSE "raised"
    /\ UNCHANGED <<departures, mresult, apiVars, pureVars>>

MainNext ==
    \/ MainFetch
    \/ MainBuild
    \/ MainSave
    \/ MainHandler

MainSpec == Init /\ [][MainNext]_vars

(***************************************************************************)
(* tram_analyzer.fetch_departures and build_result on a section of page    *)
(* text: the sections are the board entries "<destination> <carriage> tram *)
(* <wait>" one after the other, at most MaxEntries of them, and DESTINATION*)
(* is one of FilterTerms                                                   *)
(***************************************************************************)
MaxEntries == 2

BoardDestinations == {<<"A","s","h","t","o","n","-","U","n","d","e","r","-","L","y","n","e">>,
                      <<"A","s","h","t","o","n">>,
                      <<"V","I","C","T","O","R","I","A">>}
Single == <<"S","i","n","g","l","e">>
Double == <<"D","o","u","b","l","e">>
TwelveMINS == <<"1","2"," ","M","I","N","S">>
BoardWaits == {<<"D","u","e">>, <<"1","2"," ","m","i","n","s">>,
               TwelveMINS, <<"s","o","o","n">>,
               <<"A","r","r",DotlessI,"v","e","d">>}

\* every destination as a single tram with every wait, and as a double tram with
\* one of them
BoardEntry(d, c, w) == d \o <<" ">> \o c \o <<" ","t","r","a","m"," ">> \o w
BoardEntries ==
    {BoardEntry(d, Single, w) : d \in BoardDestinations, w \in BoardWaits}
    \cup {BoardEntry(d, Double, TwelveMINS) : d \in BoardDestinations}

RECURSIVE Boards(_)
Boards(n) ==
    IF n = 0 THEN {<<>>}
    ELSE Boards(n - 1) \cup {b \o <<" ">> \o e : b \in Boards(n - 1), e \in BoardEntries}

Sections == Boards(MaxEntries)

FilterTerms == {Lower(<<"v","i","c","t","o","r","i","a">>), Lower(<<"A","s","h","t","o","n">>)}

ExtractorInit ==
    /\ Constructed
    /\ SUPERVISOR_TOKEN = FALSE
    /\ NoWaitText
    /\ section \in Sections
    /\ destination_filter \in FilterTerms
    /\ found = <<>>
    /\ extracted = <<>>
    /\ built = [status |-> "none"]
    /\ xpc = "scan"

\* line 141: the matches of the pattern in the section
Scan ==
    /\ xpc = "scan"
    /\ found' = finditer(section)
    /\ xpc' = "loop"
    /\ UNCHANGED <<apiVars, mainVars, section, extracted, destination_filter, built,
                   raw_wait, minutes>>

\* lines 138-159: the loop over the matches, the sort, the return
Collect ==
    /\ xpc = "loop"
    /\ extracted' = fetch_departures(found)
    /\ xpc' = "build"
    /\ UNCHANGED <<apiVars, mainVars, section, found, destination_filter, built,
                   raw_wait, minutes>>

\* build_result called on the returned list
Build ==
    /\ xpc = "build"
    /\ built' = build_result_for(destination_filter, extracted)
    /\ xpc' = "done"
    /\ UNCHANGED <<apiVars, mainVars, section, found, extracted, destination_filter,
                   raw_wait, minutes>>

ExtractorNext ==
    \/ Scan
    \/ Collect
    \/ Build

ExtractorSpec == ExtractorInit /\ [][ExtractorNext]_vars

(***************************************************************************)
(* tram_analyzer.parse_minutes called on a wait-time text: the texts are   *)
(* every concatenation of at most MaxTokens tokens                         *)
(***************************************************************************)
MaxTokens == 3

WaitTokens == {<<"D","u","e">>, <<"N","O","W">>, <<"A","r","r","i","v","e","d">>,
               <<"d","e","p","a","r","t","i","n","g">>,
               <<"4">>, <<"1","2">>, <<"0">>, <<" ">>,
               <<"m","i","n">>, <<"m","i","n","s">>, <<"x">>}

RECURSIVE Concatenations(_, _)
Concatenations(S, n) ==
    IF n = 0 THEN {<<>>}
    ELSE LET shorter == Concatenations(S, n - 1)
         IN  shorter \cup {s \o x : s \in shorter, x \in S}

WaitInputs == Concatenations(WaitTokens, MaxTokens)

NormalizerInit ==
    /\ Constructed
    /\ SUPERVISOR_TOKEN = FALSE
    /\ NoSection
    /\ raw_wait \in WaitInputs
    /\ minutes = NotComputed

\* the call parse_minutes(raw_wait)
Normalize ==
    /\ minutes = NotComputed
    /\ minutes' = parse_minutes(raw_wait)
    /\ UNCHANGED <<apiVars, mainVars, extractVars, raw_wait>>

NormalizerSpec == NormalizerInit /\ [][Normalize]_vars

(***************************************************************************)
(* Claims                                                                  *)
(***************************************************************************)
\* between the write of "running" and the write of the terminal phase
PipelinePcs == {"health1", "health1_post", "fetch", "commit"}
InPipeline(p) == pc[p] \in PipelinePcs

\* the steps that are one call of _push_sensor, and where each leads
PushPcs == {"health1_post", "push_tram", "health2_post"}
AfterPush(at, p) ==
    IF at = "health1_post" THEN "fetch"
    ELSE IF at = "push_tram" THEN "health2"
    ELSE AfterReturn(p)

Quiet(p) == pc[p] = AfterReturn(p)

\* C1: at most one invocation of run_analysis is between the write of Running and
\* the write of the terminal phase, and the phase is Running exactly while one is:
\* an invocation that finds Running cannot enter.
C1_AtMostOneRun ==
    /\ Cardinality({p \in Procs : InPipeline(p)}) <= 1
    /\ (_state.state = "running") <=> (\E p \in Procs : InPipeline(p))

\* a run is fetching while another invocation is about to test the phase
C1_Witness ==
    \E p, q \in Procs : p # q /\ pc[p] = "fetch" /\ pc[q] = "enter"

\* C2: a POST /trigger handled while the phase is Running is answered
\* already_running with HTTP 200 and started_at = last_run, schedules no task and
\* changes nothing of RunState.
C2_AlreadyRunning ==
    [][(response = NoResponse /\ response' # NoResponse /\ _state.state = "running")
        => /\ response'.status = "already_running"
           /\ response'.status_code = 200
           /\ response'.started_at = _state.last_run
           /\ pc' = pc
           /\ _state' = _state]_vars

\* the answer to a trigger that met the second run or a later one in flight
C2_Witness ==
    /\ response.status = "already_running"
    /\ _state.state = "running"
    /\ response.started_at = _state.last_run
    /\ _state.last_run > 1
    /\ \A t \in Tasks : pc[t] = "idle"

\* C3: consecutive_failures counts the Error outcomes since the last Success
\* outcome: a run that ends in Error adds exactly 1, a run that ends in Success
\* sets it to 0, and no other step changes it.
C3_CountsErrorsSinceSuccess ==
    [][LET before == _state.consecutive_failures
           after == _state'.consecutive_failures
           ends == _state.state = "running" /\ _state'.state \in {"error", "success"}
       IN  /\ (ends /\ _state'.state = "error") => after = before + 1
           /\ (ends /\ _state'.state = "success") => after = 0
           /\ ~ends => after = before]_vars

\* a Success right after MaxFailures errors in a row: the hub still shows the last
\* of them, the counter is back at 0
C3_Witness ==
    /\ _state.state = "success"
    /\ _state.consecutive_failures = 0
    /\ hub.health = [state |-> "error", consecutive_failures |-> MaxFailures]

C5_FailedRunEndsError ==
    [][\A p \in Procs :
          (pc[p] = "commit" /\ pc'[p] = "push_tram"
              /\ result[p].status \in {"raised", "error"})
          => /\ _state'.state = "error"
             /\ _state'.last_error # NoneStr
             /\ _state'.consecutive_failures = _state.consecutive_failures + 1]_vars

\* C6: a step of _push_sensor, delivered or not, changes nothing of RunState and the
\* run goes on to its next step; a run whose pipeline returned records Success and
\* counter 0 whatever its first health push did.
C6_PushNeverFailsRun ==
    [][\A p \in Procs :
          /\ (pc[p] \in PushPcs /\ pc'[p] # pc[p])
             => /\ _state' = _state
                /\ pc'[p] = AfterPush(pc[p], p)
          /\ (pc[p] = "commit" /\ pc'[p] # pc[p] /\ result[p].status # "raised")
             => /\ _state'.state = "success"
                /\ _state'.consecutive_failures = 0]_vars

\* a whole run is over, recorded as Success, and with a token present none of its
\* three pushes reached the hub
C6_Witness ==
    /\ SUPERVISOR_TOKEN
    /\ hub = [tram |-> NoTram, health |-> NoSnap]
    /\ _state.state = "success"
    /\ _state.consecutive_failures = 0
    /\ \A p \in Procs : Quiet(p)

\* C7, as claimed: a single failure at a hub-push call fails the whole run.  A tram
\* push that leaves the hub without any tram state has failed; the run that made it
\* is then one that recorded Error.
C7_PushFailureFailsRun ==
    [][\A p \in Procs :
          (pc[p] = "push_tram" /\ pc'[p] = "health2" /\ hub.tram = NoTram /\ hub' = hub)
          => result[p].status = "raised"]_vars

\* C7, amended: nothing is retried within a run; a single failure of the page
\* retrieval fails the whole run, which records Error; a failure of a hub-push call
\* does not: the phase stays what it was and the run goes on.
C7_FetchFailureFailsRun ==
    [][\A p \in Procs :
          /\ (pc[p] = "fetch" /\ pc'[p] # "fetch") => pc'[p] = "commit"
          /\ (pc[p] = "commit" /\ pc'[p] # "commit" /\ result[p].status = "raised")
             => /\ _state'.state = "error"
                /\ pc'[p] = "push_tram"
          /\ (pc[p] \in PushPcs /\ pc'[p] # pc[p] /\ hub' = hub)
             => /\ _state'.state = _state.state
                /\ pc'[p] = AfterPush(pc[p], p)]_vars

\* the page retrieval failed after a first health push that did not reach the hub
C7_Witness ==
    \E p \in Procs :
        /\ pc[p] = "push_tram"
        /\ result[p].status = "raised"
        /\ _state.state = "error"
        /\ SUPERVISOR_TOKEN
        /\ hub.health = NoSnap

\* C8, as claimed: the background task of a trigger answered "triggered" moves the
\* phase to Running and executes the pipeline; it is never skipped.
C8_TriggeredTaskRuns ==
    [][\A t \in Tasks :
          (pc[t] = "enter" /\ pc'[t] # "enter")
          => /\ pc'[t] = "health1"
             /\ _state'.state = "running"]_vars

\* C9: the scheduler is again and again back in its loop and again and again calls
\* run_analysis, whatever the runs did.
C9_SchedulerNeverStops ==
    /\ []<>(pc[Sched] = "loop")
    /\ []<>(pc[Sched] = "enter")

\* the scheduler is back in its loop after a run of its own ended in Error, with
\* MaxFailures failures in a row
C9_Witness ==
    /\ pc[Sched] = "loop"
    /\ \A t \in Tasks : pc[t] = "idle"
    /\ _state.state = "error"
    /\ _state.consecutive_failures = MaxFailures

\* C10: in main, an empty extracted list gives the Error result, and a NoService
\* result comes only from a non-empty list none of whose records matches the filter.
C10_EmptyIsErrorNotNoService ==
    mresult.status # "none"
    => /\ departures = <<>> => mresult.status = "error"
       /\ mresult.status = "no_service"
          => /\ departures # <<>>
             /\ \A i \in 1..Len(departures) : ~IsTarget(departures[i])

\* main has built the Error result from an empty list
C10_Witness ==
    /\ mpc = "save"
    /\ departures = <<>>
    /\ mresult.status = "error"

\* the reference rule of the normalizer, stated on the characters of the text
HasZeroWaitWord(t) ==
    \E w \in ZeroWaitWords : \E i \in 1..Len(t) :
        /\ i + Len(w) - 1 <= Len(t)
        /\ \A k \in 1..Len(w) : LowerChar(t[i + k - 1]) = w[k]

\* the texts "<n> min" and "<n> mins", and the n of one
MinSuffixes == {<<" ","m","i","n">>, <<" ","m","i","n","s">>}
IsNMins(t, k) ==
    /\ k >= 1
    /\ \A i \in 1..k : IsDigit(t[i])
    /\ SubSeq(t, k + 1, Len(t)) \in MinSuffixes

\* t[i..j] is the first run of digits of t
IsFirstDigitRun(t, i, j) ==
    /\ \A k \in 1..(i - 1) : ~IsDigit(t[k])
    /\ \A k \in i..j : IsDigit(t[k])
    /\ j = Len(t) \/ ~IsDigit(t[j + 1])

\* C15: parse_minutes returns a number for every wait-time text, never negative:
\* 0 when the text holds due, arrived, departing or now in any letter case, n for
\* "<n> min" and "<n> mins", and otherwise the first run of digits, or 99 when the
\* text has no digit.
C15_ParseMinutesRule ==
    minutes # NotComputed
    => /\ minutes \in Nat
       /\ HasZeroWaitWord(raw_wait) => minutes = 0
       /\ \A k \in 1..Len(raw_wait) :
             IsNMins(raw_wait, k) => minutes = ToInt(SubSeq(raw_wait, 1, k))
       /\ ~HasZeroWaitWord(raw_wait)
          => /\ (\A i \in 1..Len(raw_wait) : ~IsDigit(raw_wait[i]))
                => minutes = NoDigitsMinutes
             /\ \A i, j \in 1..Len(raw_wait) :
                   (i <= j /\ IsFirstDigitRun(raw_wait, i, j))
                   => minutes = ToInt(SubSeq(raw_wait, i, j))

\* "NOW" in capitals, after a number, has been given 0
C15_Witness ==
    /\ raw_wait = <<"1","2"," ","N","O","W">>
    /\ minutes = 0

\* the list fetch_departures returns has been computed
Extracted == xpc \in {"build", "done"}

\* the dedup key of a match, and of a record, as a pair
KeyOfMatch(m) == <<Lower(m.dest), Lower(m.wait)>>
KeyOfRecord(r) == <<Lower(r.destination), Lower(r.departure_text)>>

\* the place in scan order of the first match with the key of the record r
FirstMatchOf(r) ==
    CHOOSE k \in 1..Len(found) :
        /\ KeyOfMatch(found[k]) = KeyOfRecord(r)
        /\ \A l \in 1..(k - 1) : KeyOfMatch(found[l]) # KeyOfRecord(r)

\* the texts the third group of the pattern accepts, and the number of minutes each
\* one writes
WrittenMinutes(t) ==
    IF Lower(t) \in ZeroWaitWords THEN {0}
    ELSE {ToInt(SubSeq(t, 1, k)) : k \in {k \in 1..Len(t) :
                                             /\ \A i \in 1..k : IsDigit(t[i])
                                             /\ Lower(SubSeq(t, k + 1, Len(t))) \in MinSuffixes}}

\* the records of the returned list whose destination holds the filter term, letter
\* case aside
HoldsFilter(r) ==
    \E a \in 0..(Len(r.destination) - Len(destination_filter)) :
        \A k \in 1..Len(destination_filter) :
            LowerChar(r.destination[a + k]) = LowerChar(destination_filter[k])
MatchingPlaces == {i \in 1..Len(extracted) : HoldsFilter(extracted[i])}
NthMatching(n) ==
    CHOOSE i \in MatchingPlaces : Cardinality({j \in MatchingPlaces : j <= i}) = n

\* C11: build_result returns Success exactly when a record of the extracted list
\* holds the filter term in its destination, letter case aside, and NoService
\* otherwise; Success carries the matching records, all of them and in the list's
\* order, and its next_tram is a matching record with the least minutes_until of them.
C11_FilterAndNext ==
    xpc = "done"
    => /\ built.status = (IF MatchingPlaces # {} THEN "success" ELSE "no_service")
       /\ built.status = "success"
          => /\ Len(built.all_destination_trams) = Cardinality(MatchingPlaces)
             /\ \A n \in 1..Len(built.all_destination_trams) :
                   LET r == extracted[NthMatching(n)]
                   IN  built.all_destination_trams[n] =
                          [departure_text |-> r.departure_text,
                           minutes_until |-> r.minutes_until,
                           carriages |-> r.carriages]
             /\ \E i \in MatchingPlaces :
                   /\ built.next_tram = [departure_text |-> extracted[i].departure_text,
                                         minutes_until |-> extracted[i].minutes_until,
                                         destination |-> extracted[i].destination,
                                         carriages |-> extracted[i].carriages]
                   /\ \A j \in MatchingPlaces :
                         extracted[i].minutes_until <= extracted[j].minutes_until

\* the filter "ashton" has kept Ashton and Ashton-Under-Lyne, and the next tram is
\* the one the board listed second
C11_Witness ==
    /\ xpc = "done"
    /\ destination_filter = <<"a","s","h","t","o","n">>
    /\ Len(found) = 2
    /\ parse_minutes(found[1].wait) > parse_minutes(found[2].wait)
    /\ Lower(found[1].dest) # Lower(found[2].dest)
    /\ built.status = "success"
    /\ Len(built.all_destination_trams) = 2
    /\ built.next_tram.minutes_until = 0

\* C12: no two records of the returned list have the same key (destination and wait
\* text, lower-cased); each record comes from the first match with its key in scan
\* order, carriage word included, and every match has its key in the list.
C12_FirstOccurrenceWins ==
    Extracted
    => /\ \A i, j \in 1..Len(extracted) :
             i # j => KeyOfRecord(extracted[i]) # KeyOfRecord(extracted[j])
       /\ \A i \in 1..Len(extracted) :
             /\ \E k \in 1..Len(found) : KeyOfMatch(found[k]) = KeyOfRecord(extracted[i])
             /\ extracted[i].carriages = found[FirstMatchOf(extracted[i])].carriages
       /\ \A k \in 1..Len(found) :
             \E i \in 1..Len(extracted) : KeyOfRecord(extracted[i]) = KeyOfMatch(found[k])

\* two matches with one key, written in different letter case and with different
\* carriage words, gave one record, with the carriage word of the first
C12_Witness ==
    /\ Extracted
    /\ Len(found) = 2
    /\ found[1].wait # found[2].wait
    /\ found[1].carriages # found[2].carriages
    /\ Len(extracted) = 1
    /\ extracted[1].carriages = found[1].carriages

\* C13: the returned list is in ascending order of minutes_until, and records with
\* equal minutes_until are in the order in which their matches were found.
C13_SortedAndStable ==
    Extracted
    => \A i, j \in 1..Len(extracted) :
          i < j
          => /\ extracted[i].minutes_until <= extracted[j].minutes_until
             /\ extracted[i].minutes_until = extracted[j].minutes_until
                => FirstMatchOf(extracted[i]) < FirstMatchOf(extracted[j])

\* two records with equal minutes_until, in the order of the board
C13_Witness ==
    /\ Extracted
    /\ Len(extracted) = 2
    /\ extracted[1].minutes_until = extracted[2].minutes_until
    /\ extracted[1].minutes_until > 0
    /\ KeyOfRecord(extracted[1]) = KeyOfMatch(found[1])

\* the pairs of names of the vocabulary of which the first is a prefix of the second
PrefixPairs ==
    {pr \in VALID_DESTINATIONS \X VALID_DESTINATIONS :
        /\ Len(pr[1]) < Len(pr[2])
        /\ SubSeq(pr[2], 1, Len(pr[1])) = pr[1]}

\* C14: the alternation lists the names by decreasing length, and wherever the
\* section has a triple that starts with the longer name of a prefix pair (outside
\* any earlier match), the match found there has the longer name in full as its
\* destination, and so has a record of the returned list.
C14_LongestNameWins ==
    /\ \A k \in 1..(Len(dest_pattern) - 1) :
          Len(dest_pattern[k]) >= Len(dest_pattern[k + 1])
    /\ xpc # "scan"
       => \A pr \in PrefixPairs : \A i \in 1..Len(section) :
             (/\ PatternWith(pr[2], section, i).end > 0
              /\ \A k \in 1..Len(found) : ~(found[k].start < i /\ i < found[k].end))
             => /\ \E k \in 1..Len(found) :
                      /\ found[k].start = i
                      /\ Lower(found[k].dest) = pr[2]
                /\ Extracted
                   => \E n \in 1..Len(extracted) : extracted[n].destination = Title(pr[2])

\* the board lists Ashton and then Ashton-Under-Lyne, and the list has a record for
\* each of the two names
C14_Witness ==
    /\ Extracted
    /\ Len(found) = 2
    /\ Lower(found[1].dest) = <<"a","s","h","t","o","n">>
    /\ Len(extracted) = 2
    /\ extracted[2].destination = Title(<<"a","s","h","t","o","n","-","u","n","d","e","r","-","l","y","n","e">>)
    /\ extracted[1].destination = Title(<<"a","s","h","t","o","n">>)

\* C16, as claimed: every record of the returned list has a departure_text that is
\* a zero-wait keyword or digits followed by min or mins, and its minutes_until is
\* 0 for a keyword and the number written for the other: the value of the no-digits
\* branch of parse_minutes is in no record and in no next_tram.
C16_SentinelNotSurfaced ==
    /\ Extracted
       => \A i \in 1..Len(extracted) :
             /\ WrittenMinutes(extracted[i].departure_text) # {}
             /\ extracted[i].minutes_until \in WrittenMinutes(extracted[i].departure_text)
    /\ (xpc = "done" /\ built.status = "success")
       => built.next_tram.minutes_until \in WrittenMinutes(built.next_tram.departure_text)

\* C17, as claimed: whatever save_result does when a handler of main writes the
\* error payload, no exception leaves main.
C17_NoExceptionLeavesMain ==
    mpc # "raised"

\* C18: in every state of the RunState, Success goes with a counter of 0, no
\* last_error and a last_success; Error with a counter of at least 1 and a
\* last_error; Running with a last_run; and the phase is Idle only while the
\* RunState is the initial one, no run having started.
C18_PhaseInvariants ==
    /\ _state.state \in {"idle", "running", "success", "error"}
    /\ _state.state = "success"
       => /\ _state.consecutive_failures = 0
          /\ _state.last_error = NoneStr
          /\ _state.last_success # NoneTime
    /\ _state.state = "error"
       => /\ _state.consecutive_failures >= 1
          /\ _state.last_error # NoneStr
    /\ _state.state = "running" => _state.last_run # NoneTime
    /\ _state.state = "idle"
       => /\ _state = InitialState
          /\ \A p \in Procs : pc[p] \in {AfterReturn(p), "queued", "enter"}

\* a Success that follows a failed run: the last_error of that run has been cleared
C18_Witness ==
    /\ _state.state = "success"
    /\ _state.last_error = NoneStr
    /\ _state.last_success > 1
    /\ hub.health.state = "error"
    /\ \E p \in Procs : pc[p] = "push_tram"

\* C19: whenever the phase is Running it later is Success or Error, the calls a
\* run makes all returning or raising.
C19_RunningEnds ==
    (_state.state = "running") ~> (_state.state \in {"success", "error"})

\* a run has recorded its outcome after a first health push that did not reach the
\* hub and a page retrieval that raised
C19_Witness ==
    \E p \in Procs :
        /\ pc[p] = "health2"
        /\ SUPERVISOR_TOKEN
        /\ hub = [tram |-> NoTram, health |-> NoSnap]
        /\ _state.state = "error"
        /\ _state.consecutive_failures = 1

\* C20, as claimed: the last health push of a run, delivered while no other run is
\* in flight and the hub shows the current RunState, leaves the hub showing the
\* current RunState: it does not overwrite what a later run pushed with an older copy.
C20_HealthConverges ==
    [][\A p \in Procs :
          (/\ pc[p] = "health2_post"
           /\ pc'[p] = AfterReturn(p)
           /\ \A q \in Procs \ {p} : Quiet(q)
           /\ hub.health = HealthPayload(_state))
          => hub'.health = HealthPayload(_state')]_vars

====
